---- MODULE Spec2Model ----
(***************************************************************************)
(* State-machine model of src/streamlit_app.py: one session of the sales   *)
(* dashboard.  Its script runs show the login page until a submission      *)
(* authenticates, and then the dashboard: load_data, the filter selection, *)
(* the monthly aggregation, make_forecast_from_series and the sections     *)
(* that follow it, with the table of all forecasts of the export section.  *)
(*                                                                         *)
(* Strings are sequences of one-character tokens.  The token "a~" stands   *)
(* for the precomposed letter a-with-tilde (U+00E3), "A~" for its capital  *)
(* (U+00C3) and "~" for the combining tilde (U+0303, category Mn).         *)
(* Fractions are kept exact: a raw model output is an integer number of    *)
(* tenths.                                                                 *)
(***************************************************************************)
EXTENDS Integers, Sequences, FiniteSets, TLC

\* ---------------------------------------------------------------- settings

FORECAST_MONTHS == 6

\* REDUCTION_FACTOR = 0.9, as the fraction 9/10
REDUCTION_FACTOR_NUM == 9
REDUCTION_FACTOR_DEN == 10

MIN_DATE == [y |-> 2024, m |-> 1, d |-> 1]

\* Bound of the model: the number of rows of the raw sheet.
MaxRows == 2

\* ----------------------------------------------------------- text helpers

UPPER == <<"A","B","C","D","E","F","G","H","I","J","K","L","M",
           "N","O","P","Q","R","S","T","U","V","W","X","Y","Z">>

LOWER == <<"a","b","c","d","e","f","g","h","i","j","k","l","m",
           "n","o","p","q","r","s","t","u","v","w","x","y","z">>

\* str.lower() and str.upper(), character by character
LowerMap ==
    [c \in { UPPER[i] : i \in 1..Len(UPPER) } \cup {"A~"} |->
        IF c = "A~" THEN "a~" ELSE LOWER[CHOOSE i \in 1..Len(UPPER) : UPPER[i] = c]]

UpperMap ==
    [c \in { LOWER[i] : i \in 1..Len(LOWER) } \cup {"a~"} |->
        IF c = "a~" THEN "A~" ELSE UPPER[CHOOSE i \in 1..Len(LOWER) : LOWER[i] = c]]

LowerChar(c) == IF c \in DOMAIN LowerMap THEN LowerMap[c] ELSE c

UpperChar(c) == IF c \in DOMAIN UpperMap THEN UpperMap[c] ELSE c

StrLower(s) == [i \in 1..Len(s) |-> LowerChar(s[i])]

StrUpper(s) == [i \in 1..Len(s) |-> UpperChar(s[i])]

IsSpace(c) == c = " "

RECURSIVE LStrip(_)
LStrip(s) == IF s # <<>> /\ IsSpace(Head(s)) THEN LStrip(Tail(s)) ELSE s

RECURSIVE RStrip(_)
RStrip(s) ==
    IF s # <<>> /\ IsSpace(s[Len(s)]) THEN RStrip(SubSeq(s, 1, Len(s) - 1)) ELSE s

\* str.strip()
StrStrip(s) == RStrip(LStrip(s))

\* unicodedata.normalize('NFD', .) on one character
NfdChar(c) ==
    IF c = "a~" THEN <<"a", "~">>
    ELSE IF c = "A~" THEN <<"A", "~">>
    ELSE <<c>>

RECURSIVE Nfd(_)
Nfd(s) == IF s = <<>> THEN <<>> ELSE NfdChar(Head(s)) \o Nfd(Tail(s))

\* unicodedata.category(c) != 'Mn'
NotMn(c) == c # "~"

\* remove_acentos: NFD, drop the combining marks, strip, lower
remove_acentos(text) == StrLower(StrStrip(SelectSeq(Nfd(text), NotMn)))

\* The literal column names of the source.
Emissao == <<"E","m","i","s","s","a","o">>
Cliente == <<"C","l","i","e","n","t","e">>
Produto == <<"P","r","o","d","u","t","o">>
Quantidade == <<"Q","u","a","n","t","i","d","a","d","e">>
Grupo == <<"G","r","u","p","o">>
SEM_GRUPO == <<"S","E","M"," ","G","R","U","P","O">>
TODOS == <<"T","O","D","O","S">>

\* ---------------------------------------------------------------- cells

\* A cell of the sheet as read with dtype=str: missing (NaN) or a text.
NA == [na |-> TRUE, s |-> <<>>]

Txt(s) == [na |-> FALSE, s |-> s]

\* A date cell: its text is the date y-m-d as written in the sheet.
DateTxt(y, m, d) == [na |-> FALSE, y |-> y, m |-> m, d |-> d]

NaT == [na |-> TRUE, y |-> 0, m |-> 0, d |-> 0]

DaysInMonth(y, m) ==
    IF m = 2 THEN (IF y % 4 = 0 /\ (y % 100 # 0 \/ y % 400 = 0) THEN 29 ELSE 28)
    ELSE IF m \in {4, 6, 9, 11} THEN 30 ELSE 31

\* pd.to_datetime(., errors='coerce'): a timestamp, or NaT for a missing cell
\* and for a text that is no calendar date
ToDatetime(c) ==
    IF c.na THEN NaT
    ELSE IF c.m \in 1..12 /\ c.d \in 1..DaysInMonth(c.y, c.m)
         THEN [na |-> FALSE, y |-> c.y, m |-> c.m, d |-> c.d]
         ELSE NaT

DIGITS == <<"0","1","2","3","4","5","6","7","8","9">>

IsDigit(c) == \E i \in 1..Len(DIGITS) : DIGITS[i] = c

DigitVal(c) == (CHOOSE i \in 1..Len(DIGITS) : DIGITS[i] = c) - 1

RECURSIVE DigitsVal(_)
DigitsVal(s) ==
    IF s = <<>> THEN 0
    ELSE 10 * DigitsVal(SubSeq(s, 1, Len(s) - 1)) + DigitVal(s[Len(s)])

AllDigits(s) == s # <<>> /\ \A i \in 1..Len(s) : IsDigit(s[i])

NaN == [na |-> TRUE, v |-> 0]

\* pd.to_numeric(., errors='coerce'): the number, or NaN for a missing cell
\* and for a text that is no number
ToNumeric(c) ==
    IF c.na THEN NaN
    ELSE IF AllDigits(c.s) THEN [na |-> FALSE, v |-> DigitsVal(c.s)]
    ELSE IF Len(c.s) > 1 /\ c.s[1] = "-" /\ AllDigits(Tail(c.s))
         THEN [na |-> FALSE, v |-> 0 - DigitsVal(Tail(c.s))]
         ELSE NaN

\* Series.astype(str): a missing value becomes the text 'nan' on the builds
\* of pandas where str is the object dtype, and stays missing on the builds
\* where str is the string dtype (keepNA).
AstypeStr(c, keepNA) ==
    IF c.na THEN (IF keepNA THEN NA ELSE Txt(<<"n","a","n">>)) ELSE c

\* .astype(str).str.strip().str.upper(); the .str methods keep a missing value
CleanText(c, keepNA) ==
    LET t == AstypeStr(c, keepNA)
    IN  IF t.na THEN NA ELSE Txt(StrUpper(StrStrip(t.s)))

\* The value of a Grupo cell that stayed missing: the float nan, which is
\* no text (one token that no text holds).
FloatNaN == <<"float('nan')">>

\* date comparison a >= b
DateGE(a, b) ==
    \/ a.y > b.y
    \/ a.y = b.y /\ a.m > b.m
    \/ a.y = b.y /\ a.m = b.m /\ a.d >= b.d

\* .dt.to_period('M').dt.to_timestamp(): the first day of the month
ToMonthStart(t) == [y |-> t.y, m |-> t.m, d |-> 1]

\* ------------------------------------------------------------ the raw sheet

\* A column of the sheet: its header as written, and the field of a row
\* record that holds its cells.
Col(name, field) == [name |-> name, field |-> field]

\* Headers found in sheets: the logical names, and variants of them.
Layouts ==
    { \* the logical names as they are
      << Col(Emissao, "Emissao"), Col(Cliente, "Cliente"), Col(Produto, "Produto"),
         Col(Quantidade, "Quantidade"), Col(Grupo, "Grupo") >>,
      \* accent, case and blanks on a column load_data does not return; no Grupo
      << Col(<<"E","M","I","S","S","A~","O"," ">>, "Emissao"), Col(Cliente, "Cliente"),
         Col(<<" ">> \o Produto, "Produto"), Col(Quantidade, "Quantidade") >>,
      \* " cliente ": blanks and lower case
      << Col(Emissao, "Emissao"), Col(<<" ","c","l","i","e","n","t","e"," ">>, "Cliente"),
         Col(Produto, "Produto"), Col(Quantidade, "Quantidade"), Col(Grupo, "Grupo") >>,
      \* no Quantidade
      << Col(Emissao, "Emissao"), Col(Cliente, "Cliente"), Col(Produto, "Produto"),
         Col(<<"V","a","l","o","r">>, "Quantidade") >>,
      \* neither Emissao nor Produto
      << Col(Cliente, "Cliente"), Col(Quantidade, "Quantidade"), Col(Grupo, "Grupo") >> }

Row(e, c, p, q, g) ==
    [Emissao |-> e, Cliente |-> c, Produto |-> p, Quantidade |-> q, Grupo |-> g]

\* Rows found in sheets: sales of two customers, two products and two lines
\* in 2024-01, 2024-12 and 2025-01, a sale with no line, and rows with one
\* defective cell each.
RawRows ==
    { Row(DateTxt(2024, 12, 15), Txt(<<" ","a">>), Txt(<<"p">>), Txt(<<"5">>), Txt(<<"g">>)),
      Row(DateTxt(2024, 12, 3), Txt(<<"A">>), Txt(<<"Q"," ">>), Txt(<<"1","0">>), Txt(<<"g">>)),
      Row(DateTxt(2024, 1, 1), Txt(<<"B">>), Txt(<<"P">>), Txt(<<"7">>), Txt(<<"h">>)),
      Row(DateTxt(2025, 1, 20), Txt(<<"A">>), Txt(<<"P">>), Txt(<<"1","2">>), Txt(<<"G">>)),
      \* no line
      Row(DateTxt(2024, 12, 15), Txt(<<"A">>), Txt(<<"P">>), Txt(<<"5">>), NA),
      \* no customer
      Row(DateTxt(2024, 12, 15), NA, Txt(<<"P">>), Txt(<<"5">>), Txt(<<"g">>)),
      \* no product
      Row(DateTxt(2024, 12, 15), Txt(<<"A">>), NA, Txt(<<"5">>), Txt(<<"g">>)),
      \* a date that does not exist
      Row(DateTxt(2024, 2, 30), Txt(<<"A">>), Txt(<<"P">>), Txt(<<"5">>), Txt(<<"g">>)),
      \* the day before MIN_DATE
      Row(DateTxt(2023, 12, 31), Txt(<<"A">>), Txt(<<"P">>), Txt(<<"5">>), Txt(<<"g">>)),
      \* a quantity that is no number
      Row(DateTxt(2024, 12, 15), Txt(<<"A">>), Txt(<<"P">>), Txt(<<"x">>), Txt(<<"g">>)) }

SeqsUpTo(S, n) == UNION { [1..k -> S] : k \in 1..n }

\* The sheets enumerated: a layout and 1..MaxRows rows.
RawFiles == { [columns |-> l, rows |-> r] : l \in Layouts, r \in SeqsUpTo(RawRows, MaxRows) }

\* --------------------------------------------------------------- load_data

Min(S) == CHOOSE x \in S : \A y \in S : x <= y

\* df.columns = df.columns.str.strip()
StripColumns(columns) ==
    [i \in 1..Len(columns) |-> Col(StrStrip(columns[i].name), columns[i].field)]

\* find_column's None (a falsy value, like the empty name)
None == <<>>

\* find_column: the first column whose normalized name is the target's
find_column(columns, target) ==
    LET target_norm == remove_acentos(target)
        hits == { i \in 1..Len(columns) : remove_acentos(columns[i].name) = target_norm }
    IN  IF hits = {} THEN None ELSE columns[Min(hits)].name

\* df[name]: the position of the column called name (0: not in the index)
ColumnIndex(columns, name) ==
    LET hits == { i \in 1..Len(columns) : columns[i].name = name }
    IN  IF hits = {} THEN 0 ELSE Min(hits)

REQUIRED == << Emissao, Cliente, Produto, Quantidade >>

NoError == [kind |-> "", col |-> None]

\* The loop of lines 143-148, with the message naming None instead of the
\* logical column.
MatchColumnsUnnamed(columns) ==
    LET missing == { k \in 1..Len(REQUIRED) : find_column(columns, REQUIRED[k]) = None }
    IN  [stop |-> missing # {},
         error |-> IF missing # {} THEN [kind |-> "coluna_nao_encontrada", col |-> None]
                   ELSE NoError,
         cols |-> [k \in 1..Len(REQUIRED) |-> find_column(columns, REQUIRED[k])]]

\* The loop of lines 143-148: at the first logical column without a match,
\* st.error names it and st.stop() ends the run; else cols maps each one.
MatchColumns(columns) ==
    LET missing == { k \in 1..Len(REQUIRED) : find_column(columns, REQUIRED[k]) = None }
    IN  [stop |-> missing # {},
         error |-> IF missing # {}
                   THEN [kind |-> "coluna_nao_encontrada", col |-> REQUIRED[Min(missing)]]
                   ELSE NoError,
         cols |-> [k \in 1..Len(REQUIRED) |-> find_column(columns, REQUIRED[k])]]

\* One row of the frame after lines 150-153, by column position: the columns
\* found for Cliente and Produto cleaned, those for Emissao and Quantidade
\* parsed, every other column as read.
CleanRow(columns, cols, row, keepNA) ==
    [i \in 1..Len(columns) |->
        LET cell == row[columns[i].field]
        IN  IF columns[i].name = cols[1] THEN ToDatetime(cell)
            ELSE IF columns[i].name = cols[4] THEN ToNumeric(cell)
            ELSE IF columns[i].name \in {cols[2], cols[3]} THEN CleanText(cell, keepNA)
            ELSE cell]

\* dropna(subset=[the four columns found]) and Emissao >= MIN_DATE, for one row
KeepRow(columns, cols, frow) ==
    /\ \A k \in 1..Len(REQUIRED) : ~ frow[ColumnIndex(columns, cols[k])].na
    /\ DateGE(frow[ColumnIndex(columns, cols[1])], MIN_DATE)

\* Lines 150-156: the frame cleaned, parsed and filtered.
KeptRows(columns, cols, rows, keepNA) ==
    LET Keep(frow) == KeepRow(columns, cols, frow)
    IN  SelectSeq([i \in 1..Len(rows) |-> CleanRow(columns, cols, rows[i], keepNA)], Keep)

\* Lines 157-159 without the test.
EmptyStopForgotten(kept) == FALSE

\* Lines 157-159: df.empty, on which st.error and st.stop() follow
EmptyStop(kept) == Len(kept) = 0

\* Lines 161-169: AnoMes, Grupo and the selection of the five columns by
\* their literal names, which raises KeyError for a name not in the index.
SelectColumns(columns, cols, kept, keepNA) ==
    LET grupo_col == find_column(columns, Grupo)
        iE == ColumnIndex(columns, cols[1])
        iC == ColumnIndex(columns, Cliente)
        iP == ColumnIndex(columns, Produto)
        iQ == ColumnIndex(columns, Quantidade)
        iG == ColumnIndex(columns, grupo_col)
    IN  IF iC = 0 \/ iP = 0 \/ iQ = 0
        THEN [status |-> "KeyError", error |-> NoError, df |-> <<>>]
        ELSE [status |-> "ok",
              error |-> NoError,
              df |-> [i \in 1..Len(kept) |->
                        [Cliente |-> kept[i][iC].s,
                         Produto |-> kept[i][iP].s,
                         Quantidade |-> kept[i][iQ].v,
                         AnoMes |-> ToMonthStart(kept[i][iE]),
                         Grupo |-> IF grupo_col # None
                                   THEN IF CleanText(kept[i][iG], keepNA).na
                                        THEN FloatNaN
                                        ELSE CleanText(kept[i][iG], keepNA).s
                                   ELSE SEM_GRUPO]]]

\* The one element of a singleton (binds a value once it is computed).
The(S) == CHOOSE x \in S : TRUE

\* load_data on a sheet that exists.  status "ok": the frame returned;
\* "stop": st.error(error) and st.stop(); "KeyError": the selection of line
\* 169 raised.
load_data(f, keep) ==
    The({ IF match.stop
          THEN [status |-> "stop", error |-> match.error, df |-> <<>>]
          ELSE The({ IF EmptyStop(kept)
                     THEN [status |-> "stop",
                           error |-> [kind |-> "nenhum_dado", col |-> None], df |-> <<>>]
                     ELSE SelectColumns(columns, match.cols, kept, keep) :
                     kept \in { KeptRows(columns, match.cols, f.rows, keep) } }) :
          columns \in { StripColumns(f.columns) },
          match \in { MatchColumns(StripColumns(f.columns)) } })

\* validate_data(df, ['Cliente', 'Produto', 'Quantidade', 'AnoMes', 'Grupo']):
\* the frame load_data returns has these five columns, which leaves df.empty
validate_data(df) ==
    IF Len(df) = 0 THEN [ok |-> FALSE, error |-> [kind |-> "dataframe_vazio", col |-> None]]
    ELSE [ok |-> TRUE, error |-> NoError]

\* -------------------------------------------------- filters and aggregation

\* date comparison a < b
DateLT(a, b) == ~ DateGE(a, b)

\* Series.unique(), as a set
Unique(rows, field) == { rows[i][field] : i \in 1..Len(rows) }

\* sorted(values) raises TypeError when it has to compare the float nan with
\* a text; nan alone, or texts alone, it sorts.
SortedRaises(values) == FloatNaN \in values /\ values # {FloatNaN}

\* df if value == "TODOS" else df[df[field] == value]; nan == nan is False
FilterBy(rows, field, value) ==
    LET Match(r) == r[field] = value /\ value # FloatNaN
    IN  IF value = TODOS THEN rows ELSE SelectSeq(rows, Match)

\* Lines 520-522 without the test.
EmptySelectionIgnored(dff) == FALSE

\* Lines 520-522: dff.empty, on which st.warning and return follow
EmptySelection(dff) == Len(dff) = 0

\* One row more in a groupby('AnoMes') that leaves the groups in the order in
\* which their keys first appear (sort=False).
AddToGroupUnsorted(g, row) ==
    IF \E i \in 1..Len(g) : g[i].AnoMes = row.AnoMes
    THEN LET i == CHOOSE i \in 1..Len(g) : g[i].AnoMes = row.AnoMes
         IN  [g EXCEPT ![i].Quantidade = @ + row.Quantidade]
    ELSE Append(g, [AnoMes |-> row.AnoMes, Quantidade |-> row.Quantidade])

\* One row more in groupby('AnoMes')['Quantidade'].sum(): added to the sum of
\* its month, or a new group at its place among the sorted keys.
AddToGroup(g, row) ==
    IF \E i \in 1..Len(g) : g[i].AnoMes = row.AnoMes
    THEN LET i == CHOOSE i \in 1..Len(g) : g[i].AnoMes = row.AnoMes
         IN  [g EXCEPT ![i].Quantidade = @ + row.Quantidade]
    ELSE LET k == Cardinality({ i \in 1..Len(g) : DateLT(g[i].AnoMes, row.AnoMes) })
         IN  SubSeq(g, 1, k)
             \o << [AnoMes |-> row.AnoMes, Quantidade |-> row.Quantidade] >>
             \o SubSeq(g, k + 1, Len(g))

\* dff.groupby('AnoMes', as_index=False)['Quantidade'].sum(), row by row
RECURSIVE GroupBySum(_)
GroupBySum(rows) ==
    IF rows = <<>> THEN <<>>
    ELSE AddToGroup(GroupBySum(SubSeq(rows, 1, Len(rows) - 1)), rows[Len(rows)])

\* .sort_index(): a stable sort by AnoMes
RECURSIVE SortIndex(_)
SortIndex(s) ==
    IF s = <<>> THEN <<>>
    ELSE LET rest == SortIndex(SubSeq(s, 1, Len(s) - 1))
             x == s[Len(s)]
             k == Cardinality({ i \in 1..Len(rest) : ~ DateLT(x.AnoMes, rest[i].AnoMes) })
         IN  SubSeq(rest, 1, k) \o << x >> \o SubSeq(rest, k + 1, Len(rest))

\* grouped['Previsao'] = 'HISTORICO'
Labelled(g, label) ==
    [i \in 1..Len(g) |->
        [AnoMes |-> g[i].AnoMes, Quantidade |-> g[i].Quantidade, Previsao |-> label]]

\* ---------------------------------------------------------------- forecast

\* What ExponentialSmoothing(...).fit() and .forecast(FORECAST_MONTHS) hand
\* back is the library's: the fit raises, or yields FORECAST_MONTHS raw values.
\* The raw values enumerated, in tenths: level base, change slope per step.
RawBases == {50, 128}

RawSlopes == {0, -40}

FitOutcomes ==
    { [ok |-> FALSE, raw |-> <<>>] }
    \cup { [ok |-> TRUE, raw |-> [i \in 1..FORECAST_MONTHS |-> b + (i - 1) * sl]] :
             b \in RawBases, sl \in RawSlopes }

\* A series without a point cannot be fitted: make_forecast_from_series raises.
FitOutcomesFor(serie) ==
    IF serie = <<>> THEN { [ok |-> FALSE, raw |-> <<>>] } ELSE FitOutcomes

\* serie.index[-1] without the offset added.
MonthBeginNoOffset(t) == [y |-> t.y, m |-> t.m, d |-> 1]

\* ts + pd.offsets.MonthBegin(): the first day of the next month
MonthBegin(t) ==
    IF t.m = 12 THEN [y |-> t.y + 1, m |-> 1, d |-> 1]
    ELSE [y |-> t.y, m |-> t.m + 1, d |-> 1]

\* pd.date_range(start, periods, freq='MS') from a first of month
DateRangeMS(start, periods) ==
    [i \in 1..periods |->
        LET total == start.y * 12 + (start.m - 1) + (i - 1)
        IN  [y |-> total \div 12, m |-> (total % 12) + 1, d |-> 1]]

\* Rounding that cuts the fraction off.
RoundDown(num, den) == num \div den

\* Series.round() of num/den (den > 0): to the nearest integer, a half to the
\* even one
RoundHalfEven(num, den) ==
    LET q == num \div den
        r == num - q * den
    IN  IF 2 * r < den THEN q
        ELSE IF 2 * r > den THEN q + 1
        ELSE IF q % 2 = 0 THEN q ELSE q + 1

\* (m.forecast(FORECAST_MONTHS) * REDUCTION_FACTOR).round().astype(int) for
\* one raw value in tenths; astype(int) of a rounded value changes nothing
ReducedRounded(raw10) ==
    RoundHalfEven(raw10 * REDUCTION_FACTOR_NUM, 10 * REDUCTION_FACTOR_DEN)

\* make_forecast_from_series after a fit that did not raise
make_forecast_from_series(serie, raw) ==
    LET idx == DateRangeMS(MonthBegin(serie[Len(serie)].AnoMes), FORECAST_MONTHS)
    IN  [i \in 1..FORECAST_MONTHS |->
            [AnoMes |-> idx[i], Quantidade |-> ReducedRounded(raw[i]), Previsao |-> "PREVISAO"]]

\* ------------------------------------------------------- the forecast table

\* df['Produto'].unique(): the values in the order in which they first appear
RECURSIVE UniqueInOrder(_, _)
UniqueInOrder(rows, field) ==
    IF rows = <<>> THEN <<>>
    ELSE LET before == UniqueInOrder(SubSeq(rows, 1, Len(rows) - 1), field)
             x == rows[Len(rows)][field]
         IN  IF \E i \in 1..Len(before) : before[i] = x THEN before ELSE Append(before, x)

\* df[df['Produto'] == produto]
ProductRows(rows, produto) == SelectSeq(rows, LAMBDA r : r.Produto = produto)

\* The monthly series of one product, as lines 364-370 build it.
ProductSerie(rows, produto) == SortIndex(GroupBySum(ProductRows(rows, produto)))

\* The products for which lines 364-373 reach make_forecast_from_series:
\* those with at least two months.
FittedProducts(rows) ==
    { p \in Unique(rows, "Produto") : Len(GroupBySum(ProductRows(rows, p))) >= 2 }

\* What the fits of the products can come to.  The library fits the same
\* series the same way, so a product whose series is the one of the main
\* chart has the outcome of the main chart.
ProductFits(rows, mainSerie, mainFit) ==
    { f \in [FittedProducts(rows) -> FitOutcomes] :
        \A p \in FittedProducts(rows) : ProductSerie(rows, p) = mainSerie => f[p] = mainFit }

\* df['AnoMes'].max() of a frame with rows
MaxAnoMes(rows) ==
    CHOOSE a \in Unique(rows, "AnoMes") : \A b \in Unique(rows, "AnoMes") : DateGE(a, b)

\* ts + pd.DateOffset(months=i) for a first of month
AddMonths(t, i) ==
    LET total == t.y * 12 + (t.m - 1) + i
    IN  [y |-> total \div 12, m |-> (total % 12) + 1, d |-> t.d]

\* Lines 356-361: the months after the latest month of the whole frame
ForecastDates(rows) == [i \in 1..FORECAST_MONTHS |-> AddMonths(MaxAnoMes(rows), i)]

\* The decimal digits of n, at least width of them (zero padded)
RECURSIVE ZeroPadded(_, _)
ZeroPadded(n, width) ==
    IF width <= 1 /\ n < 10 THEN << DIGITS[n + 1] >>
    ELSE Append(ZeroPadded(n \div 10, width - 1), DIGITS[(n % 10) + 1])

\* ts.strftime('%m/%Y')
StrfMonthYear(t) == ZeroPadded(t.m, 2) \o <<"/">> \o ZeroPadded(t.y, 4)

\* Lines 375-388: the rows appended for one product whose forecast is fc,
\* from the i-th forecast date on
RECURSIVE AppendForecasts(_, _, _, _)
AppendForecasts(produto, fc, dates, i) ==
    IF i > Len(dates) THEN <<>>
    ELSE LET previsao_mes == SelectSeq(fc, LAMBDA r : r.AnoMes = dates[i])
         IN  (IF previsao_mes # <<>> /\ previsao_mes[1].Quantidade > 0
              THEN << [Produto |-> produto,
                       Data |-> StrfMonthYear(dates[i]),
                       AnoMes |-> dates[i],
                       Quantidade_Prevista |-> previsao_mes[1].Quantidade] >>
              ELSE <<>>)
             \o AppendForecasts(produto, fc, dates, i + 1)

\* Lines 363-390 for one product: nothing for a product of fewer than two
\* months and for one whose fit raised.
ProductForecasts(rows, produto, fits, dates) ==
    IF produto \notin FittedProducts(rows) THEN <<>>
    ELSE IF ~ fits[produto].ok THEN <<>>
    ELSE AppendForecasts(produto,
                         make_forecast_from_series(ProductSerie(rows, produto),
                                                   fits[produto].raw),
                         dates, 1)

RECURSIVE AllProductForecasts(_, _, _, _)
AllProductForecasts(rows, produtos, fits, dates) ==
    IF produtos = <<>> THEN <<>>
    ELSE ProductForecasts(rows, Head(produtos), fits, dates)
         \o AllProductForecasts(rows, Tail(produtos), fits, dates)

\* create_all_forecasts_table(df) of a frame with rows, the fits of its
\* products coming to fits
create_all_forecasts_table(rows, fits) ==
    AllProductForecasts(rows, UniqueInOrder(rows, "Produto"), fits, ForecastDates(rows))

\* The order of two characters of a Data text ('/' is before the digits)
CharOrd(c) == IF c = "/" THEN 0 ELSE DigitVal(c) + 1

\* a < b for two texts of the same length
RECURSIVE TextLT(_, _)
TextLT(a, b) ==
    /\ a # <<>>
    /\ \/ CharOrd(Head(a)) < CharOrd(Head(b))
       \/ Head(a) = Head(b) /\ TextLT(Tail(a), Tail(b))

\* x is before y under sort_values(['Data', 'Quantidade_Prevista'],
\* ascending=[True, False])
ExportBefore(x, y) ==
    \/ TextLT(x.Data, y.Data)
    \/ x.Data = y.Data /\ x.Quantidade_Prevista > y.Quantidade_Prevista

\* Line 462: the columns Produto, Data and Quantidade_Prevista, sorted by
\* the text Data and then by falling quantity (a stable sort)
RECURSIVE ExportFrame(_)
ExportFrame(table) ==
    IF table = <<>> THEN <<>>
    ELSE LET rest == ExportFrame(SubSeq(table, 1, Len(table) - 1))
             x == [Produto |-> table[Len(table)].Produto,
                   Data |-> table[Len(table)].Data,
                   Quantidade_Prevista |-> table[Len(table)].Quantidade_Prevista]
             k == Cardinality({ i \in 1..Len(rest) : ~ ExportBefore(x, rest[i]) })
         IN  SubSeq(rest, 1, k) \o << x >> \o SubSeq(rest, k + 1, Len(rest))

\* ------------------------------------------------------------------- login

USUARIOS == [u \in {"comercial"} |-> "cad@2025"]

\* What a visitor types into the two fields of the login form.
TypedUsers == {"comercial", "admin"}

TypedPasswords == {"cad@2025", "admin"}

\* A check of the user name alone.
authenticate_known_user(usuario, senha) == usuario \in DOMAIN USUARIOS

\* authenticate_user: usuario in USUARIOS and USUARIOS[usuario] == senha
authenticate_user(usuario, senha) ==
    usuario \in DOMAIN USUARIOS /\ USUARIOS[usuario] = senha

\* ------------------------------------------------------------------- state

VARIABLES
    file,           \* the sheet data/base_vendas_24.xlsx
    keepNA,         \* the pandas build: astype(str) keeps a missing value
    session_state,  \* st.session_state, as its (key, value) pairs
    login,          \* the submission of the login form last handled
    pc,             \* where the script run is
    executed,       \* the steps of the pipeline this run has executed
    error,          \* what st.error last reported in this run
    warning,        \* what st.warning last reported in this run
    df,             \* the frame get_data returned
    sel,            \* the three selectboxes
    grouped,        \* show_dashboard's grouped
    serie,          \* show_dashboard's serie
    fit,            \* what the fit of serie came to
    resultado,      \* show_dashboard's resultado
    fits,           \* what the fits of create_all_forecasts_table came to
    all_forecasts,  \* show_export_section's all_forecasts
    excel_complete       \* the frame show_export_section offers for download

vars == << file, keepNA, session_state, login, pc, executed, error, warning, df, sel,
           grouped, serie, fit, resultado, fits, all_forecasts, excel_complete >>

\* What one script run computes.
run == << executed, error, warning, df, sel, grouped, serie, fit, resultado, fits,
          all_forecasts, excel_complete >>

NoSel == [grupo |-> None, cliente |-> None, produto |-> None]

NoFit == [ok |-> FALSE, raw |-> <<>>]

NoLogin == [usuario |-> "", senha |-> ""]

\* st.session_state.authenticated, False while the key is not there
Authenticated == << "authenticated", TRUE >> \in session_state

\* A script run that has not computed anything yet.
FreshRun ==
    /\ executed = {}
    /\ error = NoError
    /\ warning = ""
    /\ df = <<>>
    /\ sel = NoSel
    /\ grouped = <<>>
    /\ serie = <<>>
    /\ fit = NoFit
    /\ resultado = <<>>
    /\ fits = <<>>
    /\ all_forecasts = <<>>
    /\ excel_complete = <<>>

\* The next script run starts with nothing computed.
NewRun ==
    /\ executed' = {}
    /\ error' = NoError
    /\ warning' = ""
    /\ df' = <<>>
    /\ sel' = NoSel
    /\ grouped' = <<>>
    /\ serie' = <<>>
    /\ fit' = NoFit
    /\ resultado' = <<>>
    /\ fits' = <<>>
    /\ all_forecasts' = <<>>
    /\ excel_complete' = <<>>

\* A session opens: nothing in st.session_state, the first run about to start.
Init ==
    /\ file \in RawFiles
    /\ keepNA \in BOOLEAN
    /\ session_state = {}
    /\ login = NoLogin
    /\ pc = "start"
    /\ FreshRun

\* The run is over: the script returned, stopped or raised, and the page waits
\* for the user.
RunOver == pc \in {"done", "stopped", "crashed", "crashed_selecting"}

\* main and check_authentication in a run without a form submission:
\* authenticated is set to False when the key is not there, the login page is
\* shown and main returns.
ShowLogin ==
    /\ pc = "start"
    /\ ~ Authenticated
    /\ session_state' = { << "authenticated", FALSE >> }
    /\ pc' = "login"
    /\ UNCHANGED << file, keepNA, login, run >>

\* The run that the button ENTRAR starts, show_login_page lines 87-93: a pair
\* that authenticate_user accepts sets authenticated and st.rerun() starts the
\* next run; any other pair is answered with st.error on the login page.
SubmitLogin ==
    /\ pc = "login"
    /\ ~ Authenticated
    /\ \E usuario \in TypedUsers, senha \in TypedPasswords :
         /\ login' = [usuario |-> usuario, senha |-> senha]
         /\ IF authenticate_user(usuario, senha)
            THEN /\ session_state' = { << "authenticated", TRUE >> }
                 /\ pc' = "start"
                 /\ error' = NoError
            ELSE /\ session_state' = session_state
                 /\ pc' = "login"
                 /\ error' = [kind |-> "usuario_ou_senha_incorretos", col |-> None]
    /\ UNCHANGED << file, keepNA, executed, warning, df, sel, grouped, serie, fit,
                    resultado, fits, all_forecasts, excel_complete >>

\* The run that the button SAIR starts, lines 496-497 and logout: authenticated
\* is set to False and st.rerun() starts the next run before anything of the
\* dashboard is computed.
Logout ==
    /\ RunOver
    /\ Authenticated
    /\ session_state' = { << "authenticated", FALSE >> }
    /\ pc' = "start"
    /\ NewRun
    /\ UNCHANGED << file, keepNA, login >>

\* Any other widget of the dashboard starts the script again.
Rerun ==
    /\ RunOver
    /\ Authenticated
    /\ pc' = "start"
    /\ NewRun
    /\ UNCHANGED << file, keepNA, session_state, login >>

\* main with check_authentication True, then show_dashboard lines 499-506:
\* get_data() and validate_data.  st.stop() ends the run; an exception of
\* load_data is not caught.
LoadData ==
    /\ pc = "start"
    /\ Authenticated
    /\ \E r \in { load_data(file, keepNA) } :
         LET v == validate_data(r.df)
         IN
           /\ pc' = IF r.status = "stop" THEN "stopped"
                    ELSE IF r.status = "KeyError" THEN "crashed"
                    ELSE IF ~ v.ok THEN "stopped"
                    ELSE "loaded"
           /\ error' = IF r.status = "ok" THEN v.error ELSE r.error
           /\ df' = r.df
    /\ executed' = executed \cup {"load"}
    /\ UNCHANGED << file, keepNA, session_state, login, warning, sel, grouped, serie,
                    fit, resultado, fits, all_forecasts, excel_complete >>

\* The three selectboxes applied to a frame (lines 512-518, 222-224, 424-427)
Filtered(rows, s) ==
    FilterBy(FilterBy(FilterBy(rows, "Grupo", s.grupo), "Cliente", s.cliente),
             "Produto", s.produto)

\* show_dashboard, lines 511-526: the three selectboxes, each offering TODOS
\* and the sorted values left by the one before (sorted() of the lines raises
\* when a missing line is among named ones), the warning when no row is left,
\* then the monthly series.
Select ==
    /\ pc = "loaded"
    /\ IF SortedRaises(Unique(df, "Grupo"))
       THEN /\ pc' = "crashed_selecting"
            /\ UNCHANGED << executed, warning, sel, grouped, serie >>
       ELSE \E grupo \in {TODOS} \cup Unique(df, "Grupo") :
              LET dfg == FilterBy(df, "Grupo", grupo)
              IN  \E cliente \in {TODOS} \cup Unique(dfg, "Cliente") :
                    LET dfc == FilterBy(dfg, "Cliente", cliente)
                    IN  \E produto \in {TODOS} \cup Unique(dfc, "Produto") :
                          LET dff == FilterBy(dfc, "Produto", produto)
                              g == GroupBySum(dff)
                          IN  /\ sel' = [grupo |-> grupo, cliente |-> cliente,
                                         produto |-> produto]
                              /\ IF EmptySelection(dff)
                                 THEN /\ pc' = "done"
                                      /\ warning' = "nenhum_dado_com_os_filtros"
                                      /\ UNCHANGED << executed, grouped, serie >>
                                 ELSE /\ pc' = "aggregated"
                                      /\ executed' = executed \cup {"aggregate"}
                                      /\ grouped' = Labelled(g, "HISTORICO")
                                      /\ serie' = SortIndex(g)
                                      /\ warning' = warning
    /\ UNCHANGED << file, keepNA, session_state, login, error, df, fit, resultado, fits,
                    all_forecasts, excel_complete >>

\* show_dashboard, lines 528-533: the forecast of serie.  An exception of
\* make_forecast_from_series is reported with st.error and the run returns.
Forecast ==
    /\ pc = "aggregated"
    /\ \E outcome \in FitOutcomesFor(serie) :
         /\ fit' = outcome
         /\ IF outcome.ok
            THEN /\ resultado' = grouped \o make_forecast_from_series(serie, outcome.raw)
                 /\ pc' = "forecast"
                 /\ error' = error
            ELSE /\ resultado' = resultado
                 /\ pc' = "done"
                 /\ error' = [kind |-> "erro_na_previsao", col |-> None]
    /\ executed' = executed \cup {"forecast"}
    /\ UNCHANGED << file, keepNA, session_state, login, warning, df, sel, grouped, serie,
                    fits, all_forecasts, excel_complete >>

\* show_dashboard, lines 535-587: the chart of resultado, the ranking chart,
\* the statistics and show_export_section, which filters df once more, builds
\* the table of all forecasts and offers it sorted, or warns that it is empty.
Sections ==
    /\ pc = "forecast"
    /\ pc' = "done"
    /\ executed' = executed \cup {"chart", "ranking", "statistics", "export"}
    /\ \E df_filtered \in { Filtered(df, sel) } :
         \E f \in ProductFits(df_filtered, serie, fit) :
           \E table \in { create_all_forecasts_table(df_filtered, f) } :
             /\ fits' = f
             /\ all_forecasts' = table
             /\ excel_complete' = ExportFrame(table)
             /\ warning' = IF table = <<>> THEN "nenhuma_previsao_disponivel" ELSE warning
    /\ UNCHANGED << file, keepNA, session_state, login, error, df, sel, grouped, serie,
                    fit, resultado >>

Next ==
    \/ ShowLogin
    \/ SubmitLogin
    \/ Logout
    \/ Rerun
    \/ LoadData
    \/ Select
    \/ Forecast
    \/ Sections

Spec == Init /\ [][Next]_vars

\* ------------------------------------------------------------------ claims

\* The historical rows and the forecast rows of resultado.
Historical == SelectSeq(resultado, LAMBDA r : r.Previsao = "HISTORICO")

Forecasted == SelectSeq(resultado, LAMBDA r : r.Previsao = "PREVISAO")

FitFailed == "forecast" \in executed /\ ~ fit.ok

FitSucceeded == "forecast" \in executed /\ fit.ok

RECURSIVE SumQuantidade(_)
SumQuantidade(rows) ==
    IF rows = <<>> THEN 0 ELSE rows[1].Quantidade + SumQuantidade(Tail(rows))

\* The last three points of a series, or all of them when there are fewer.
LastThree(s) == SubSeq(s, IF Len(s) > 3 THEN Len(s) - 2 ELSE 1, Len(s))

\* C1: whenever the fit of a series of at least one point has failed, the run
\* still holds a forecast, the mean of the last three historical points (of
\* all of them when there are fewer) in each of the FORECAST_MONTHS months,
\* and no error was reported for the failure.
C1_FallbackOnFitFailure ==
    (FitFailed /\ Len(serie) >= 1) =>
        /\ error.kind # "erro_na_previsao"
        /\ Len(Forecasted) = FORECAST_MONTHS
        /\ \A i \in 1..Len(Forecasted) :
             Forecasted[i].Quantidade * Len(LastThree(serie)) = SumQuantidade(LastThree(serie))

\* C2: once the forecast step has run, with the fit succeeding or failing,
\* resultado has len(historical) + FORECAST_MONTHS rows.
C2_ResultRowCount ==
    "forecast" \in executed => Len(resultado) = Len(grouped) + FORECAST_MONTHS

\* b is the calendar month that follows a
IsNextMonth(a, b) ==
    /\ a.m \in 1..12 /\ b.m \in 1..12
    /\ \/ a.m < 12 /\ b.y = a.y /\ b.m = a.m + 1
       \/ a.m = 12 /\ b.y = a.y + 1 /\ b.m = 1

\* The latest month of a non-empty series.
LatestMonth(s) ==
    CHOOSE a \in { s[i].AnoMes : i \in 1..Len(s) } :
        \A i \in 1..Len(s) : DateGE(a, s[i].AnoMes)

\* C3: the forecast rows that make_forecast_from_series returned carry
\* FORECAST_MONTHS dates, each a first of month, each the calendar month after
\* the one before, the first the month after the latest historical month; none
\* is a historical month.
C3_ForecastMonthsConsecutive ==
    FitSucceeded =>
        /\ Len(Forecasted) = FORECAST_MONTHS
        /\ \A i \in 1..Len(Forecasted) : Forecasted[i].AnoMes.d = 1
        /\ IsNextMonth(LatestMonth(grouped), Forecasted[1].AnoMes)
        /\ \A i \in 1..(Len(Forecasted) - 1) :
             IsNextMonth(Forecasted[i].AnoMes, Forecasted[i + 1].AnoMes)
        /\ \A i \in 1..Len(Forecasted), j \in 1..Len(grouped) :
             Forecasted[i].AnoMes # grouped[j].AnoMes

\* C3's case: a forecast after a history of two months that ends in December,
\* so that the forecast months start in the next year.
C3_Witness ==
    /\ FitSucceeded
    /\ Len(grouped) = 2
    /\ LatestMonth(grouped) = [y |-> 2024, m |-> 12, d |-> 1]
    /\ Forecasted[1].AnoMes = [y |-> 2025, m |-> 1, d |-> 1]
    /\ Forecasted[FORECAST_MONTHS].AnoMes = [y |-> 2025, m |-> 6, d |-> 1]

Abs(x) == IF x < 0 THEN 0 - x ELSE x

\* C4: after a fit that succeeded, each forecast quantity is an integer at
\* most one half away from the raw model output of its step multiplied by
\* REDUCTION_FACTOR (raw is in tenths), and nothing else has changed it.
C4_ForecastIsReducedRounded ==
    FitSucceeded =>
        /\ Len(Forecasted) = Len(fit.raw)
        /\ \A i \in 1..Len(Forecasted) :
             /\ Forecasted[i].Quantidade \in Int
             /\ 2 * Abs(Forecasted[i].Quantidade * 10 * REDUCTION_FACTOR_DEN
                        - fit.raw[i] * REDUCTION_FACTOR_NUM)
                  <= 10 * REDUCTION_FACTOR_DEN

\* C4's case: a forecast from raw outputs with a fraction above one half
\* (12.8 * 0.9 = 11.52) and from negative ones.
C4_Witness ==
    /\ FitSucceeded
    /\ fit.raw[1] = 128
    /\ Forecasted[1].Quantidade = 12
    /\ \E i \in 1..Len(fit.raw) : fit.raw[i] < 0

\* C5: no forecast quantity of resultado is negative.
C5_ForecastNonNegative ==
    \A i \in 1..Len(Forecasted) : Forecasted[i].Quantidade >= 0

\* A raw row with customer and product present, a date that parses and is not
\* before MIN_DATE, and a quantity that parses.
RawValid(row) ==
    /\ ~ row.Cliente.na
    /\ ~ row.Produto.na
    /\ ~ ToDatetime(row.Emissao).na
    /\ DateGE(ToDatetime(row.Emissao), MIN_DATE)
    /\ ~ ToNumeric(row.Quantidade).na

\* C6: the rows load_data returned are the valid raw rows, in their order:
\* as many, each with the month and the quantity of its raw row.
C6_RetainedRowsValid ==
    pc = "loaded" =>
        LET valid == SelectSeq(file.rows, RawValid)
        IN  /\ Len(df) = Len(valid)
            /\ \A i \in 1..Len(df) :
                 /\ df[i].AnoMes.y = valid[i].Emissao.y
                 /\ df[i].AnoMes.m = valid[i].Emissao.m
                 /\ df[i].Quantidade = ToNumeric(valid[i].Quantidade).v

\* For each layout of sheet, the required logical columns (by their place
\* in REQUIRED) for which it has a column whose normalized name is theirs.
PresentIn ==
    [l \in Layouts |->
        { k \in 1..Len(REQUIRED) :
            \E i \in 1..Len(l) : remove_acentos(l[i].name) = remove_acentos(REQUIRED[k]) }]

AllRequiredPresent == PresentIn[file.columns] = 1..Len(REQUIRED)

\* C7: when every required logical column is in the sheet under a name with
\* the same normalized form, load_data neither reports a missing column nor
\* raises, and when rows survive it returns the frame.
C7_FuzzyColumnsLoad ==
    ("load" \in executed /\ AllRequiredPresent) =>
        /\ pc # "crashed"
        /\ error.kind # "coluna_nao_encontrada"
        /\ (\E i \in 1..Len(file.rows) : RawValid(file.rows[i])) => pc # "stopped"

\* A raw row that the cleaning of this build does not drop: its date parses
\* and is not before MIN_DATE, its quantity parses, and its customer and its
\* product are present where astype(str) keeps a missing value.
RowSurvives(row) ==
    /\ keepNA => (~ row.Cliente.na /\ ~ row.Produto.na)
    /\ ~ ToDatetime(row.Emissao).na
    /\ DateGE(ToDatetime(row.Emissao), MIN_DATE)
    /\ ~ ToNumeric(row.Quantidade).na

\* C8: when the required columns are there and no row survives the cleaning
\* and the date filter, load_data has reported that no data is left and the
\* run has stopped: nothing but the load has been executed, and there is no
\* frame, no series and no result.
C8_EmptyDatasetStops ==
    ("load" \in executed /\ AllRequiredPresent
       /\ \A i \in 1..Len(file.rows) : ~ RowSurvives(file.rows[i])) =>
        /\ pc = "stopped"
        /\ error.kind = "nenhum_dado"
        /\ executed = {"load"}
        /\ df = <<>> /\ grouped = <<>> /\ serie = <<>> /\ resultado = <<>>

\* C8's case: a sheet of two rows, one dated before MIN_DATE and one with a
\* quantity that is no number, has been loaded and the run has stopped.
C8_Witness ==
    /\ pc = "stopped"
    /\ error.kind = "nenhum_dado"
    /\ Len(file.rows) = 2
    /\ \E i \in 1..Len(file.rows) :
         /\ ~ ToDatetime(file.rows[i].Emissao).na
         /\ ~ DateGE(ToDatetime(file.rows[i].Emissao), MIN_DATE)
    /\ \E i \in 1..Len(file.rows) : ToNumeric(file.rows[i].Quantidade).na

\* The first required logical column without a column in the sheet.
FirstMissing == REQUIRED[Min((1..Len(REQUIRED)) \ PresentIn[file.columns])]

\* C9: when a required logical column has no column in the sheet, load_data
\* has reported it by name and the run has stopped: nothing but the load has
\* been executed, and there is no frame, no series and no result.
C9_MissingColumnStops ==
    ("load" \in executed /\ ~ AllRequiredPresent) =>
        /\ pc = "stopped"
        /\ error = [kind |-> "coluna_nao_encontrada", col |-> FirstMissing]
        /\ executed = {"load"}
        /\ df = <<>> /\ grouped = <<>> /\ serie = <<>> /\ resultado = <<>>

\* C9's case: a sheet with neither Emissao nor Produto, and rows that would
\* survive, has been loaded; the run has stopped on Emissao.
C9_Witness ==
    /\ pc = "stopped"
    /\ PresentIn[file.columns] = {2, 4}
    /\ error.col = Emissao
    /\ \E i \in 1..Len(file.rows) : RawValid(file.rows[i])

\* The rows the three selectboxes leave.
Dff ==
    FilterBy(FilterBy(FilterBy(df, "Grupo", sel.grupo), "Cliente", sel.cliente),
             "Produto", sel.produto)

Perms(n) == { p \in [1..n -> 1..n] : \A i, j \in 1..n : p[i] = p[j] => i = j }

Permuted(rows, p) == [i \in 1..Len(rows) |-> rows[p[i]]]

\* C10: grouped, and serie with it, has one entry for each month of the rows
\* selected, in ascending order of month and with no month twice, each with
\* the sum of the quantities of the rows of its month; the rows in any other
\* order give the same series.
C10_MonthlySeries ==
    "aggregate" \in executed =>
        /\ Len(serie) = Len(grouped)
        /\ \A i \in 1..Len(grouped) :
             /\ serie[i].AnoMes = grouped[i].AnoMes
             /\ serie[i].Quantidade = grouped[i].Quantidade
        /\ \A i, j \in 1..Len(grouped) :
             i < j => DateLT(grouped[i].AnoMes, grouped[j].AnoMes)
        /\ { grouped[i].AnoMes : i \in 1..Len(grouped) } = Unique(Dff, "AnoMes")
        /\ \A i \in 1..Len(grouped) :
             grouped[i].Quantidade =
                 SumQuantidade(SelectSeq(Dff, LAMBDA r : r.AnoMes = grouped[i].AnoMes))
        /\ \A p \in Perms(Len(Dff)) :
             Labelled(GroupBySum(Permuted(Dff, p)), "HISTORICO") = grouped

\* C10's case: two rows selected, the one of the later month first in the
\* frame, aggregated to two months.
C10_Witness ==
    /\ "aggregate" \in executed
    /\ Len(Dff) = 2
    /\ DateLT(Dff[2].AnoMes, Dff[1].AnoMes)
    /\ Len(grouped) = 2

\* C11: when the three selectboxes are set and no row of the frame matches
\* them, the run has ended without an exception and without a st.error, has
\* warned that there is no data for the filters, and has neither aggregated
\* nor forecast anything.
C11_EmptySelectionWarns ==
    (sel # NoSel /\ Dff = <<>>) =>
        /\ pc = "done"
        /\ warning = "nenhum_dado_com_os_filtros"
        /\ error = NoError
        /\ executed = {"load"}
        /\ grouped = <<>> /\ serie = <<>> /\ fit = NoFit /\ resultado = <<>>
        /\ all_forecasts = <<>>

\* C11's case: a frame with rows whose lines all stayed missing, the missing
\* line selected, which no row equals.
C11_Witness ==
    /\ df # <<>>
    /\ sel = [grupo |-> FloatNaN, cliente |-> TODOS, produto |-> TODOS]
    /\ Dff = <<>>
    /\ pc = "done"
    /\ warning = "nenhum_dado_com_os_filtros"

\* The rows of the table of all forecasts that belong to one product.
TableRowsOf(produto) == SelectSeq(all_forecasts, LAMBDA r : r.Produto = produto)

\* C12: a fit that fails blocks nothing but its own series: in the table of
\* all forecasts every product whose fit succeeded has its rows whatever
\* became of the fits of the others, and a run whose main fit failed has
\* still drawn the ranking chart and built the export section.
C12_FitFailureIsolated ==
    /\ "export" \in executed =>
         \A p \in DOMAIN fits :
            fits[p].ok =>
               TableRowsOf(p) = ProductForecasts(Dff, p, fits, ForecastDates(Dff))
    /\ (FitFailed /\ RunOver) =>
         /\ "ranking" \in executed
         /\ "export" \in executed

\* The number of a calendar month, counted from year 0.
MonthNumber(t) == t.y * 12 + t.m

\* C13: the series handed to the fit has one point for every calendar month
\* from its earliest to its latest month: each point is the month after the
\* one before it, and there are as many points as months in the span.
C13_SeriesHasEveryMonth ==
    "forecast" \in executed =>
        /\ \A i \in 1..(Len(serie) - 1) : IsNextMonth(serie[i].AnoMes, serie[i + 1].AnoMes)
        /\ Len(serie) =
             MonthNumber(serie[Len(serie)].AnoMes) - MonthNumber(serie[1].AnoMes) + 1

\* C14: once show_export_section has built the table of all forecasts, every
\* product of the rows selected has been fitted and has exactly
\* FORECAST_MONTHS rows in it, one for each of the FORECAST_MONTHS months after
\* the product's own latest month, with the quantity make_forecast_from_series
\* computed for that month.
C14_AllForecastsOfAllProducts ==
    "export" \in executed =>
        \A p \in Unique(Dff, "Produto") :
            /\ p \in DOMAIN fits
            /\ fits[p].ok
            /\ Len(TableRowsOf(p)) = FORECAST_MONTHS
            /\ \A i \in 1..FORECAST_MONTHS :
                 \E k \in 1..Len(all_forecasts) :
                    /\ all_forecasts[k].Produto = p
                    /\ all_forecasts[k].AnoMes.d = 1
                    /\ MonthNumber(all_forecasts[k].AnoMes) =
                         MonthNumber(LatestMonth(ProductRows(Dff, p))) + i
                    /\ all_forecasts[k].Quantidade_Prevista = ReducedRounded(fits[p].raw[i])

\* The pair of a form submission is an entry of USUARIOS.
ValidPair(l) == l.usuario \in DOMAIN USUARIOS /\ USUARIOS[l.usuario] = l.senha

\* C15: in one session, whatever the order of runs, submissions and logouts:
\* authenticated is not true at the start; a run has executed a step of the
\* dashboard or holds a frame only while authenticated is true;
\* authenticated turns true only in the run of a login submission whose pair
\* is in USUARIOS; a submission of any other pair leaves it false and the
\* login page up; it turns false only by logout, with nothing of the
\* dashboard computed; and a run that starts with authenticated not true
\* shows the login page and computes nothing.
C15_DashboardOnlyWhenAuthenticated ==
    /\ ~ Authenticated
    /\ [](~ Authenticated =>
             /\ FreshRun \/ (pc = "login" /\ executed = {} /\ df = <<>>)
             /\ pc \in {"start", "login"})
    /\ [][(~ Authenticated /\ Authenticated') =>
             (pc = "login" /\ ValidPair(login') /\ pc' = "start")]_vars
    /\ [][(pc = "login" /\ ~ ValidPair(login')) =>
             (~ Authenticated' /\ pc' = "login" /\ executed' = {})]_vars
    /\ [][(Authenticated /\ ~ Authenticated') =>
             (RunOver /\ pc' = "start" /\ FreshRun'
                /\ session_state' = { << "authenticated", FALSE >> })]_vars
    /\ [][(pc = "start" /\ ~ Authenticated) =>
             (pc' = "login" /\ ~ Authenticated' /\ executed' = {} /\ df' = <<>>)]_vars

\* C15's case: a session that has logged in with the pair of USUARIOS, has
\* logged out of the dashboard, and is on the login page again, not
\* authenticated.
C15_Witness ==
    /\ ValidPair(login)
    /\ pc = "login"
    /\ session_state = { << "authenticated", FALSE >> }
    /\ FreshRun

====
